---------------------------- MODULE Spec2Model ----------------------------
(***************************************************************************)
(* Model of the mood-tracking engine MoodChatAI (src/backend.py) and of    *)
(* the way the Streamlit app (src/app.py) drives it.                       *)
(*                                                                         *)
(* Abstractions, stated once:                                              *)
(*  - time is counted in whole days; datetime.today() is the variable now; *)
(*  - a confidence (a float in [0,1]) is an integer number of hundredths;  *)
(*  - a percentage is kept exact: comparisons cross-multiply, rounding is  *)
(*    done on integers (round-half-even, as Python's round);               *)
(*  - a text is a sequence of the characters " " and "a";                  *)
(*  - the stored columns "entry" and "advice" are written once by log_mood *)
(*    and read by no operation of the engine: a record of the model keeps  *)
(*    the columns date, mood, confidence and alert_level, and the advice   *)
(*    is kept in the value log_mood returns.                               *)
(***************************************************************************)
EXTENDS Integers, Sequences, FiniteSets, TLC

\* ------------------------------------------------------------- bounds
MaxLog == 2          \* rows of the log plus appends under way
MaxNow == 1          \* the clock stops advancing at day MaxNow
NumSessions == 2     \* app sessions (script threads) sharing the engine
MaxAlertLog == 10    \* rows of the logs check_alert is tried on
MaxOld == 1          \* of which rows older than the 14-day window
MaxStatsLog == 10    \* rows of the logs get_mood_stats is tried on
MaxFileRows == 2     \* rows of the files the constructor is tried on

\* --------------------------------------------------- program constants
MinEntries == 7      \* check_alert: len(...) < 7
WindowDays == 14     \* check_alert: timedelta(days=14)
TailSize == 7        \* get_mood_stats: tail(7), iloc[:-7]
CriticalPct == 70
HighPct == 50
MediumPct == 30

Sessions == 1..NumSessions

Moods == {"POSITIVE", "NEGATIVE", "NEUTRAL"}

\* The entry texts tried: empty, whitespace only, and with text.
Entries ==
    { <<>>, <<" ", " ">>, <<"a">>, <<" ", "a", " ">> }

RECURSIVE LStrip(_)
LStrip(t) == IF t # <<>> /\ Head(t) = " " THEN LStrip(Tail(t)) ELSE t

RECURSIVE RStrip(_)
RStrip(t) ==
    IF t # <<>> /\ t[Len(t)] = " " THEN RStrip(SubSeq(t, 1, Len(t) - 1)) ELSE t

\* str.strip()
\* (variant: the text is tested as given)
StripNothing(t) == t
Strip(t) == RStrip(LStrip(t))

\* ------------------------------------------------------ analyze_mood
EmptyPrompt == "Please enter your feelings to get started."

\* self.advice_map: the templates of each mood label
advice_map ==
    [m \in Moods |->
        CASE m = "POSITIVE" -> {"P1", "P2", "P3"}
          [] m = "NEGATIVE" -> {"N1", "N2", "N3", "N4"}
          [] OTHER          -> {"U1", "U2", "U3"}]

\* self.advice_map.get(mood_label, ["Stay mindful."])
AdviceFor(m) == IF m \in DOMAIN advice_map THEN advice_map[m] ELSE {"Stay mindful."}

\* "Map model output to mood labels"
\* (variant: the classifier's label is stored as given)
MoodLabelAsGiven(label) == label
MoodLabel(label) ==
    IF label = "POSITIVE" THEN "POSITIVE"
    ELSE IF label = "NEGATIVE" THEN "NEGATIVE" ELSE "NEUTRAL"

\* What the two pipeline calls do: fail, or hand back a label and a score.
\* The replies tried: the two labels of the SST-2 model and one that is
\* neither (any other label takes the same branch), with scores (softmax
\* values, in hundredths) at both ends of [0,1] and inside.
Reply(label, score) == [failed |-> FALSE, label |-> label, score |-> score]
Failure == [failed |-> TRUE, label |-> "", score |-> 0]
Replies ==
    { Failure, Reply("POSITIVE", 100), Reply("NEGATIVE", 50), Reply("LABEL_2", 0) }

\* analyze_mood without its random choice of the advice: "empty" is the
\* early return, "raised" the exception of a pipeline call, "ok" the
\* mood label and the confidence.
\* (variant: a failed pipeline call is swallowed as NEUTRAL)
analyze_mood_swallowing(entry, reply) ==
    IF Strip(entry) = <<>>
      THEN [kind |-> "empty", mood |-> "None", confidence |-> 0]
    ELSE IF reply.failed
      THEN [kind |-> "ok", mood |-> "NEUTRAL", confidence |-> 0]
    ELSE [kind |-> "ok", mood |-> MoodLabel(reply.label), confidence |-> reply.score]
analyze_mood(entry, reply) ==
    IF Strip(entry) = <<>>
      THEN [kind |-> "empty", mood |-> "None", confidence |-> 0]
    ELSE IF reply.failed
      THEN [kind |-> "raised", mood |-> "None", confidence |-> 0]
    ELSE [kind |-> "ok", mood |-> MoodLabel(reply.label), confidence |-> reply.score]

\* ------------------------------------------------------------ records
\* One row of self.df: new_entry of log_mood (alert_level is always "LOW").
Row(date, mood, confidence) ==
    [date |-> date, mood |-> mood, confidence |-> confidence, alert_level |-> "LOW"]

\* ---------------------------------------------------- the durable file
\* A cell of the date column: the text to_csv writes for a datetime, or a
\* text that is no date.  A row of the file is a row of the frame with its
\* date as a cell.
DateCell(d) == <<"iso", d>>
BadCell == <<"text", 0>>
IsDateCell(c) == c[1] = "iso"

ToCsvRow(r) == [r EXCEPT !.date = DateCell(r.date)]
FromCsvRow(r) == [r EXCEPT !.date = r.date[2]]

RECURSIVE ToCsvRows(_)
ToCsvRows(frame) ==
    IF frame = <<>> THEN <<>> ELSE <<ToCsvRow(Head(frame))>> \o ToCsvRows(Tail(frame))

RECURSIVE FromCsvRows(_)
FromCsvRows(rows) ==
    IF rows = <<>> THEN <<>> ELSE <<FromCsvRow(Head(rows))>> \o FromCsvRows(Tail(rows))

AbsentFile == [kind |-> "absent", rows |-> <<>>]
\* open(csv_file, "w") has truncated the file and nothing is written yet
EmptyFile == [kind |-> "empty", rows |-> <<>>]
\* DataFrame.to_csv(csv_file, index=False): header and every row
CsvFile(frame) == [kind |-> "csv", rows |-> ToCsvRows(frame)]

\* The files the engine may find when it is constructed.
InitialFiles ==
    { AbsentFile,
      CsvFile(<<>>),
      CsvFile(<<Row(0, "NEGATIVE", 100)>>),
      [kind |-> "csv", rows |-> <<[ToCsvRow(Row(0, "POSITIVE", 100)) EXCEPT !.date = BadCell]>>],
      [kind |-> "csv_nodate", rows |-> <<>>] }

\* -------------------------------------------------------------- state
VARIABLES
    engine,     \* "none" before MoodChatAI() ran, then "ready" or "failed"
    df,         \* self.df, the in-memory log
    file,       \* the content of csv_file
    now,        \* datetime.today(), in days
    active,     \* the sessions that use the engine
    pc,         \* pc[s]: where session s is in log_mood
    new_entry,  \* new_entry of the running log_mood of s
    rd,         \* the self.df session s read for pd.concat
    wr,         \* the frame whose to_csv session s is running
    res,        \* what the last log_mood of s returned or raised
    call,       \* the last log_mood call of s: its entry, the df and the
                \* file it found, and what the classifier did in it
    out         \* the value of the last read-only call, while it is current

vars == <<engine, df, file, now, active, pc, new_entry, rd, wr, res, call, out>>

NoRow == Row(0, "NEUTRAL", 0)
NoResult == [status |-> "none", mood |-> "None", confidence |-> 0, advice |-> "", error |-> ""]
Returned(mood, confidence, advice) ==
    [status |-> "returned", mood |-> mood, confidence |-> confidence,
     advice |-> advice, error |-> ""]
Raised(error) ==
    [status |-> "raised", mood |-> "None", confidence |-> 0, advice |-> "", error |-> error]
NoOut == [op |-> "none"]
NoReply == [failed |-> FALSE, label |-> "", score |-> 0]
NoCall == [entry |-> <<>>, df |-> <<>>, file |-> AbsentFile, called |-> FALSE, reply |-> NoReply]

InitCommon ==
    /\ engine = "none"
    /\ df = <<>>
    /\ file \in InitialFiles
    /\ now = 0
    /\ pc = [s \in Sessions |-> "idle"]
    /\ new_entry = [s \in Sessions |-> NoRow]
    /\ rd = [s \in Sessions |-> <<>>]
    /\ wr = [s \in Sessions |-> <<>>]
    /\ res = [s \in Sessions |-> NoResult]
    /\ call = [s \in Sessions |-> NoCall]
    /\ out = NoOut

\* One session at a time: the single-threaded host of the design.
Init == InitCommon /\ active = {1}

\* The hosting app: every session's script thread shares the cached engine
\* (st.cache_resource, get_ai_engine).
InitShared == InitCommon /\ active = Sessions

\* ------------------------------------------------------ MoodChatAI()
\* read_csv, then to_datetime of the date column; only FileNotFoundError is
\* caught.
LoadFails(f) ==
    \/ f.kind = "empty"                                  \* EmptyDataError
    \/ f.kind = "csv_nodate"                             \* KeyError: 'date'
    \/ \E i \in 1..Len(f.rows) : ~IsDateCell(f.rows[i].date)   \* ValueError

Loaded(f) == IF f.kind = "absent" THEN <<>> ELSE FromCsvRows(f.rows)

Construct ==
    /\ engine = "none"
    /\ IF LoadFails(file)
         THEN engine' = "failed" /\ df' = df
         ELSE engine' = "ready" /\ df' = Loaded(file)
    /\ UNCHANGED <<file, now, active, pc, new_entry, rd, wr, res, call, out>>

\* ----------------------------------------------------------- log_mood
\* The appends under way; with the rows of the log they stay within MaxLog.
Running == {t \in Sessions : pc[t] # "idle"}

\* analyze_mood, the early return, today and new_entry.
LogMoodBegin(s) ==
    /\ engine = "ready" /\ s \in active /\ pc[s] = "idle"
    /\ Len(df) + Cardinality(Running) < MaxLog
    /\ \E entry \in Entries, reply \in Replies :
         LET a == analyze_mood(entry, reply)
             called == a.kind # "empty"
         IN  /\ call' = [call EXCEPT ![s] =
                           [entry |-> entry, df |-> df, file |-> file, called |-> called,
                            reply |-> IF called THEN reply ELSE NoReply]]
             /\ CASE a.kind = "empty" ->
                       /\ res' = [res EXCEPT ![s] = Returned("None", 0, EmptyPrompt)]
                       /\ UNCHANGED <<pc, new_entry>>
                  [] a.kind = "raised" ->
                       /\ res' = [res EXCEPT ![s] = Raised("ClassifierError")]
                       /\ UNCHANGED <<pc, new_entry>>
                  [] OTHER ->
                       \E advice \in AdviceFor(a.mood) :
                         /\ new_entry' = [new_entry EXCEPT ![s] = Row(now, a.mood, a.confidence)]
                         /\ res' = [res EXCEPT ![s] =
                                      [Returned(a.mood, a.confidence, advice)
                                         EXCEPT !.status = "running"]]
                         /\ pc' = [pc EXCEPT ![s] = "read"]
    /\ out' = NoOut
    /\ UNCHANGED <<engine, df, file, now, active, rd, wr>>

\* pd.concat([self.df, new_entry], ...): self.df is read ...
LogMoodRead(s) ==
    /\ s \in active /\ pc[s] = "read"
    /\ rd' = [rd EXCEPT ![s] = df]
    /\ pc' = [pc EXCEPT ![s] = "store"]
    /\ UNCHANGED <<engine, df, file, now, active, new_entry, wr, res, call, out>>

\* ... and the concatenation is stored in self.df
\* (variant: the new row replaces the last one)
ConcatDropLast(frame, row) == IF frame = <<>> THEN <<row>> ELSE Append(SubSeq(frame, 1, Len(frame) - 1), row)
Concat(frame, row) == Append(frame, row)

LogMoodStore(s) ==
    /\ s \in active /\ pc[s] = "store"
    /\ df' = Concat(rd[s], new_entry[s])
    /\ rd' = [rd EXCEPT ![s] = <<>>]
    /\ pc' = [pc EXCEPT ![s] = "to_csv"]
    /\ UNCHANGED <<engine, file, now, active, new_entry, wr, res, call, out>>

\* self.df.to_csv(self.csv_file, index=False): the file is opened for
\* writing, which truncates it, or the open fails and leaves it as it was.
ToCsvOpen(s) ==
    /\ s \in active /\ pc[s] = "to_csv"
    /\ \/ /\ file' = EmptyFile
          /\ wr' = [wr EXCEPT ![s] = df]
          /\ pc' = [pc EXCEPT ![s] = "write"]
          /\ UNCHANGED <<res, new_entry>>
       \/ /\ res' = [res EXCEPT ![s] = Raised("OSError")]
          /\ new_entry' = [new_entry EXCEPT ![s] = NoRow]
          /\ pc' = [pc EXCEPT ![s] = "idle"]
          /\ UNCHANGED <<file, wr>>
    /\ UNCHANGED <<engine, df, now, active, rd, call, out>>

\* The rows are written and log_mood returns, or the write fails with only
\* the first k rows in the file and log_mood raises.
ToCsvWrite(s) ==
    /\ s \in active /\ pc[s] = "write"
    /\ \/ /\ file' = CsvFile(wr[s])
          /\ res' = [res EXCEPT ![s].status = "returned"]
       \/ /\ \E k \in 0..(Len(wr[s]) - 1) :
               file' \in {EmptyFile, CsvFile(SubSeq(wr[s], 1, k))}
          /\ res' = [res EXCEPT ![s] = Raised("OSError")]
    /\ wr' = [wr EXCEPT ![s] = <<>>]
    /\ new_entry' = [new_entry EXCEPT ![s] = NoRow]
    /\ pc' = [pc EXCEPT ![s] = "idle"]
    /\ UNCHANGED <<engine, df, now, active, rd, call, out>>

\* ---------------------------------------------------------------- clock
Tick ==
    /\ now < MaxNow
    /\ now' = now + 1
    /\ out' = NoOut
    /\ UNCHANGED <<engine, df, file, active, pc, new_entry, rd, wr, res, call>>


\* ------------------------------------------------------------ counting
RECURSIVE CountMood(_, _)
\* sum(frame['mood'] == m)
CountMood(frame, m) ==
    IF frame = <<>> THEN 0
    ELSE (IF Head(frame).mood = m THEN 1 ELSE 0) + CountMood(Tail(frame), m)

RECURSIVE SumConfidence(_)
SumConfidence(frame) ==
    IF frame = <<>> THEN 0 ELSE Head(frame).confidence + SumConfidence(Tail(frame))

\* round(n / d) to the nearest integer, ties to even (Python's round)
RoundHalfEven(n, d) ==
    LET q == n \div d
        r == n % d
    IN  IF 2 * r < d THEN q
        ELSE IF 2 * r > d THEN q + 1
        ELSE IF q % 2 = 0 THEN q ELSE q + 1

\* --------------------------------------------------------- check_alert
\* self.df[self.df['date'] >= today - timedelta(days=14)]
RecentDf(frame, today) ==
    SelectSeq(frame, LAMBDA r : r.date >= today - WindowDays)

Alert(triggered, severity, message, pct) ==
    [triggered |-> triggered, severity |-> severity, message |-> message, pct |-> pct]

\* The tiers; negative_percentage >= t is negative_count * 100 >= t * total_count.
\* (variant: the tiers without the first one)
TiersWithoutCritical(negative_count, total_count) ==
    LET pct == RoundHalfEven(negative_count * 100, total_count)
    IN  IF negative_count * 100 >= HighPct * total_count
          THEN Alert(TRUE, "HIGH", "negative days detected.", pct)
        ELSE IF negative_count * 100 >= MediumPct * total_count
          THEN Alert(TRUE, "MEDIUM", "negative days detected.", pct)
        ELSE Alert(FALSE, "LOW", "Mood is stable.", 0)
Tiers(negative_count, total_count) ==
    LET pct == RoundHalfEven(negative_count * 100, total_count)
    IN  IF negative_count * 100 >= CriticalPct * total_count
          THEN Alert(TRUE, "CRITICAL", "negative days detected.", pct)
        ELSE IF negative_count * 100 >= HighPct * total_count
          THEN Alert(TRUE, "HIGH", "negative days detected.", pct)
        ELSE IF negative_count * 100 >= MediumPct * total_count
          THEN Alert(TRUE, "MEDIUM", "negative days detected.", pct)
        ELSE Alert(FALSE, "LOW", "Mood is stable.", 0)

\* (variant: the window is only required not to be empty)
check_alert_no_window_guard(frame, today) ==
    IF Len(frame) < MinEntries
      THEN Alert(FALSE, "LOW", "Not enough data yet.", 0)
    ELSE LET recent_df == RecentDf(frame, today)
         IN  IF Len(recent_df) = 0
               THEN Alert(FALSE, "LOW", "Not enough data for 2-week analysis.", 0)
             ELSE Tiers(CountMood(recent_df, "NEGATIVE"), Len(recent_df))
check_alert(frame, today) ==
    IF Len(frame) < MinEntries
      THEN Alert(FALSE, "LOW", "Not enough data yet.", 0)
    ELSE LET recent_df == RecentDf(frame, today)
         IN  IF Len(recent_df) < MinEntries
               THEN Alert(FALSE, "LOW", "Not enough data for 2-week analysis.", 0)
             ELSE Tiers(CountMood(recent_df, "NEGATIVE"), Len(recent_df))

\* ------------------------------------------------------ get_mood_stats
\* DataFrame.tail(n) and DataFrame.iloc[:-n]
TailRows(frame, n) ==
    IF Len(frame) <= n THEN frame ELSE SubSeq(frame, Len(frame) - n + 1, Len(frame))
AllButLast(frame, n) ==
    IF Len(frame) <= n THEN <<>> ELSE SubSeq(frame, 1, Len(frame) - n)

\* "Calculate trend": the fractions are compared by cross-multiplication
\* (variant: the past is the whole log)
TrendPastOverWholeLog(frame) ==
    IF Len(frame) >= 2
      THEN LET recent == TailRows(frame, TailSize)
               past == frame
               rp == CountMood(recent, "POSITIVE")
               pp == CountMood(past, "POSITIVE")
               lhs == IF Len(past) > 0 THEN rp * Len(past) ELSE rp
               rhs == IF Len(past) > 0 THEN pp * Len(recent) ELSE 0
           IN  IF lhs > rhs THEN "Improving"
               ELSE IF lhs < rhs THEN "Declining" ELSE "Stable"
      ELSE "Not enough data"
Trend(frame) ==
    IF Len(frame) >= 2
      THEN LET recent == TailRows(frame, TailSize)
               past == AllButLast(frame, TailSize)
               rp == CountMood(recent, "POSITIVE")
               pp == CountMood(past, "POSITIVE")
               \* recent_positive = rp / len(recent);
               \* past_positive = pp / len(past) if len(past) > 0 else 0
               lhs == IF Len(past) > 0 THEN rp * Len(past) ELSE rp
               rhs == IF Len(past) > 0 THEN pp * Len(recent) ELSE 0
           IN  IF lhs > rhs THEN "Improving"
               ELSE IF lhs < rhs THEN "Declining" ELSE "Stable"
      ELSE "Not enough data"

\* The dict of the empty log has no "positive_percentage" and no
\* "avg_confidence" key.  positive_percentage is in tenths of a percent,
\* avg_confidence in thousandths.
get_mood_stats(frame) ==
    IF Len(frame) = 0
      THEN [total_entries |-> 0, positive_days |-> 0, negative_days |-> 0,
            neutral_days |-> 0, trend |-> "No data"]
      ELSE LET total == Len(frame)
               positive == CountMood(frame, "POSITIVE")
           IN  [total_entries |-> total,
                positive_days |-> positive,
                negative_days |-> CountMood(frame, "NEGATIVE"),
                neutral_days |-> CountMood(frame, "NEUTRAL"),
                positive_percentage |-> RoundHalfEven(positive * 1000, total),
                trend |-> Trend(frame),
                avg_confidence |-> RoundHalfEven(SumConfidence(frame) * 10, total)]

\* ---------------------------------------------------- get_mood_history
RECURSIVE InsertByDate(_, _)
InsertByDate(sorted, r) ==
    IF sorted = <<>> THEN <<r>>
    ELSE IF r.date < Head(sorted).date THEN <<r>> \o sorted
    ELSE <<Head(sorted)>> \o InsertByDate(Tail(sorted), r)

RECURSIVE SortByDate(_)
\* sort_values('date')
SortByDate(frame) ==
    IF frame = <<>> THEN <<>>
    ELSE InsertByDate(SortByDate(SubSeq(frame, 1, Len(frame) - 1)), frame[Len(frame)])

get_mood_history(frame, today, days) ==
    SortByDate(SelectSeq(frame, LAMBDA r : r.date >= today - days))

\* ------------------------------------------------------- export_report
\* positive_percentage is in tenths of a percent: 70 is 700, 30 is 300.
\* (variant: the congratulation asks for more than 70)
_get_recommendation_above(stats) ==
    IF stats.total_entries < MinEntries THEN "keep logging"
    ELSE IF stats.positive_percentage > 700 THEN "great work"
    ELSE IF stats.positive_percentage <= 300 THEN "reach out to a professional"
    ELSE "balanced"
_get_recommendation(stats) ==
    IF stats.total_entries < MinEntries THEN "keep logging"
    ELSE IF stats.positive_percentage >= 700 THEN "great work"
    ELSE IF stats.positive_percentage <= 300 THEN "reach out to a professional"
    ELSE "balanced"

\* The keys of stats that _get_recommendation subscripts on the path it
\* takes; a key the dict does not have raises KeyError.
RecommendationKeys(stats) ==
    IF stats.total_entries < MinEntries THEN {"total_entries"}
    ELSE {"total_entries", "positive_percentage"}

export_report(frame, today) ==
    LET stats == get_mood_stats(frame)
    IN  IF ~(RecommendationKeys(stats) \subseteq DOMAIN stats)
          THEN [raised |-> "KeyError"]
          ELSE [timestamp |-> today,
                statistics |-> stats,
                alert |-> check_alert(frame, today),
                recommendation |-> _get_recommendation(stats)]

\* ------------------------------------------------ the read-only calls
\* A session calls them between its log_mood calls.
CanCall(s) == engine = "ready" /\ s \in active /\ pc[s] = "idle"

CheckAlert(s) ==
    /\ CanCall(s)
    /\ out' = [op |-> "check_alert", value |-> check_alert(df, now)]
    /\ UNCHANGED <<engine, df, file, now, active, pc, new_entry, rd, wr, res, call>>

GetMoodStats(s) ==
    /\ CanCall(s)
    /\ out' = [op |-> "get_mood_stats", value |-> get_mood_stats(df)]
    /\ UNCHANGED <<engine, df, file, now, active, pc, new_entry, rd, wr, res, call>>

\* the app asks for 7 and for 30 days
GetMoodHistory(s) ==
    /\ CanCall(s)
    /\ \E days \in {7, 30} :
         out' = [op |-> "get_mood_history", value |-> get_mood_history(df, now, days)]
    /\ UNCHANGED <<engine, df, file, now, active, pc, new_entry, rd, wr, res, call>>

ExportReport(s) ==
    /\ CanCall(s)
    /\ out' = [op |-> "export_report", value |-> export_report(df, now)]
    /\ UNCHANGED <<engine, df, file, now, active, pc, new_entry, rd, wr, res, call>>

\* ------------------------------------------------------ specifications
Next ==
    \/ Construct
    \/ Tick
    \/ \E s \in Sessions :
         \/ LogMoodBegin(s)
         \/ LogMoodRead(s)
         \/ LogMoodStore(s)
         \/ ToCsvOpen(s)
         \/ ToCsvWrite(s)
         \/ CheckAlert(s)
         \/ GetMoodStats(s)
         \/ GetMoodHistory(s)
         \/ ExportReport(s)

\* The engine driven by one session.
Spec == Init /\ [][Next]_vars

\* The engine shared by the sessions of the app, each logging moods.
NextShared ==
    \/ Construct
    \/ \E s \in Sessions :
         \/ LogMoodBegin(s)
         \/ LogMoodRead(s)
         \/ LogMoodStore(s)
         \/ ToCsvOpen(s)
         \/ ToCsvWrite(s)

SpecShared == InitShared /\ [][NextShared]_vars


\* ------------------------------------- check_alert on its own, per log
\* A ready engine between two calls, holding the log frame at time today.
Holding(frame, today) ==
    /\ engine = "ready"
    /\ df = frame
    /\ file = CsvFile(frame)
    /\ now = today
    /\ active = {1}
    /\ pc = [s \in Sessions |-> "idle"]
    /\ new_entry = [s \in Sessions |-> NoRow]
    /\ rd = [s \in Sessions |-> <<>>]
    /\ wr = [s \in Sessions |-> <<>>]
    /\ res = [s \in Sessions |-> NoResult]
    /\ call = [s \in Sessions |-> NoCall]
    /\ out = NoOut

\* Every log of at most MaxAlertLog rows of any moods, the first k of them
\* logged on day 0 and the others on day 1, looked at on day WindowDays + 1:
\* day 0 is out of the window and day 1 is its first day.
InitAlert ==
    \E n \in 0..MaxAlertLog :
      \E k \in 0..(IF n < MaxOld THEN n ELSE MaxOld) :
        \E f \in [1..n -> Moods] :
          Holding([i \in 1..n |-> Row(IF i <= k THEN 0 ELSE 1, f[i], 100)],
                  WindowDays + 1)

NextAlert == \E s \in Sessions : CheckAlert(s)

SpecAlert == InitAlert /\ [][NextAlert]_vars

\* ---------------------------------- get_mood_stats on its own, per log
\* Every log of at most MaxStatsLog rows of any moods, logged on one day.
InitStats ==
    \E n \in 0..MaxStatsLog :
      \E f \in [1..n -> Moods] :
        Holding([i \in 1..n |-> Row(0, f[i], 100)], 0)

NextStats == \E s \in Sessions : GetMoodStats(s)

SpecStats == InitStats /\ [][NextStats]_vars

\* -------------------------------------- the constructor, file by file
\* The rows of a file of n rows: any mood, a date cell that is a date or
\* is not; and the same rows in a file without the mood column, and in a
\* file without the date column.
FileRows(n) ==
    {[i \in 1..n |-> [ToCsvRow(Row(0, m[i], 100)) EXCEPT !.date = c[i]]] :
        m \in [1..n -> Moods], c \in [1..n -> {DateCell(0), DateCell(1), BadCell}]}
FileRowsNoMood(n) ==
    {[i \in 1..n |-> [date |-> c[i], confidence |-> 100, alert_level |-> "LOW"]] :
        c \in [1..n -> {DateCell(0), DateCell(1), BadCell}]}
FileRowsNoDate(n) ==
    {[i \in 1..n |-> [mood |-> m[i], confidence |-> 100, alert_level |-> "LOW"]] :
        m \in [1..n -> Moods]}

LoadFiles ==
    {AbsentFile, EmptyFile}
    \cup UNION {{[kind |-> "csv", rows |-> r] : r \in FileRows(n)} : n \in 0..MaxFileRows}
    \cup UNION {{[kind |-> "csv_nomood", rows |-> r] : r \in FileRowsNoMood(n)} : n \in 1..MaxFileRows}
    \cup UNION {{[kind |-> "csv_nodate", rows |-> r] : r \in FileRowsNoDate(n)} : n \in 1..MaxFileRows}

InitLoad ==
    /\ engine = "none"
    /\ df = <<>>
    /\ file \in LoadFiles
    /\ now = 0
    /\ active = {1}
    /\ pc = [s \in Sessions |-> "idle"]
    /\ new_entry = [s \in Sessions |-> NoRow]
    /\ rd = [s \in Sessions |-> <<>>]
    /\ wr = [s \in Sessions |-> <<>>]
    /\ res = [s \in Sessions |-> NoResult]
    /\ call = [s \in Sessions |-> NoCall]
    /\ out = NoOut

NextLoad == Construct

SpecLoad == InitLoad /\ [][NextLoad]_vars

\* ----------------------------------- export_report on its own, per log
NextReport == \E s \in Sessions : ExportReport(s)

SpecReport == InitStats /\ [][NextReport]_vars


\* ================================================================ claims
IsPrefix(a, b) == Len(a) <= Len(b) /\ SubSeq(b, 1, Len(a)) = a
IsBlank(t) == \A i \in 1..Len(t) : t[i] = " "
\* the last log_mood call of s is over
Over(s) == pc[s] = "idle" /\ res[s].status # "none"
PersistFailed(s) == Over(s) /\ res[s].status = "raised" /\ res[s].error = "OSError"
Appended(s) == Over(s) /\ res[s].status = "returned" /\ call[s].called

\* C1: when persisting fails in log_mood, the call fails and the in-memory
\* log and the file both hold what they held before the call.
C1_AppendAtomic ==
    \A s \in Sessions :
      PersistFailed(s) => df = call[s].df /\ file = call[s].file

\* C2: two log_mood calls running together on the shared engine do not lose
\* an update: once both have returned, the log holds both new rows after
\* the rows both calls found, and the file holds the log.
C2_NoLostUpdate ==
    \A s, t \in Sessions :
      (s # t /\ Appended(s) /\ Appended(t) /\ call[s].df = call[t].df /\ Running = {})
        => /\ Len(df) >= Len(call[s].df) + 2
           /\ IsPrefix(call[s].df, df)
           /\ file = CsvFile(df)

\* C3: a log_mood call with a text that is not blank, once it has returned,
\* has made the log one row longer; the row's mood is POSITIVE, NEGATIVE or
\* NEUTRAL (NEUTRAL for every classifier label but POSITIVE and NEGATIVE)
\* and its confidence lies in [0,1] (0..100 hundredths).
C3_OneValidRow ==
    \A s \in Sessions :
      Appended(s) =>
        /\ ~IsBlank(call[s].entry)
        /\ Len(df) = Len(call[s].df) + 1
        /\ IsPrefix(call[s].df, df)
        /\ LET row == df[Len(df)]
           IN  /\ row.mood \in Moods
               /\ row.mood = (IF call[s].reply.label \in {"POSITIVE", "NEGATIVE"}
                                THEN call[s].reply.label ELSE "NEUTRAL")
               /\ row.confidence \in 0..100
               /\ row.confidence = call[s].reply.score
               /\ res[s].mood = row.mood /\ res[s].confidence = row.confidence

C3_Witness ==
    /\ Appended(1)
    /\ call[1].reply.label = "LABEL_2"
    /\ Len(call[1].df) = 1
    /\ Len(df) = 2

\* C4: the log only grows at its end: every step of a constructed engine
\* leaves the log a prefix of the new log, and the only step that changes
\* it is the store of log_mood.
C4_AppendOnly ==
    [][engine = "ready" =>
         /\ IsPrefix(df, df')
         /\ (df' # df => \E s \in Sessions : pc[s] = "store" /\ pc'[s] = "to_csv")]_vars

C4_Witness ==
    /\ Len(df) = 2
    /\ Appended(1)
    /\ call[1].df # <<>>
    /\ out.op = "export_report"

\* C5: log_mood with an empty or whitespace-only text does not call the
\* classifier, leaves the log and the file as they were and returns
\* (None, 0, prompt) instead of raising.
C5_BlankRejected ==
    \A s \in Sessions :
      (res[s].status # "none" /\ IsBlank(call[s].entry)) =>
        /\ pc[s] = "idle"
        /\ ~call[s].called
        /\ res[s] = Returned("None", 0, EmptyPrompt)
        /\ df = call[s].df /\ file = call[s].file

C5_Witness ==
    /\ Over(1)
    /\ call[1].entry = <<" ", " ">>
    /\ call[1].df # <<>>
    /\ res[1].advice = EmptyPrompt

\* C6: when the classifier fails in log_mood, the call fails and the log
\* and the file are as they were.
C6_ClassifierFailure ==
    \A s \in Sessions :
      (res[s].status # "none" /\ call[s].called /\ call[s].reply.failed) =>
        /\ pc[s] = "idle"
        /\ res[s].status = "raised"
        /\ df = call[s].df /\ file = call[s].file

C6_Witness ==
    /\ Over(1)
    /\ call[1].called /\ call[1].reply.failed
    /\ call[1].df # <<>>
    /\ res[1] = Raised("ClassifierError")


\* The rows of the log in the trailing 14 days, and the NEGATIVE ones.
InWindow == {i \in 1..Len(df) : now - df[i].date <= WindowDays}
NegativeInWindow == {i \in InWindow : df[i].mood = "NEGATIVE"}
Alerted == out.op = "check_alert"

\* C7: with 7 rows or more in the 14-day window, check_alert grades
\* 100 * (NEGATIVE rows of the window) / (rows of the window), the first
\* match of: >= 70 triggered CRITICAL, >= 50 triggered HIGH, >= 30
\* triggered MEDIUM, else not triggered LOW.
C7_AlertTiers ==
    (Alerted /\ Cardinality(InWindow) >= 7) =>
      LET neg == 100 * Cardinality(NegativeInWindow)
          size == Cardinality(InWindow)
          a == out.value
      IN  /\ neg >= 70 * size => (a.triggered /\ a.severity = "CRITICAL")
          /\ (neg < 70 * size /\ neg >= 50 * size) => (a.triggered /\ a.severity = "HIGH")
          /\ (neg < 50 * size /\ neg >= 30 * size) => (a.triggered /\ a.severity = "MEDIUM")
          /\ neg < 30 * size => (~a.triggered /\ a.severity = "LOW")

\* a window of 10 rows, 7 of them NEGATIVE: CRITICAL
C7_Witness ==
    /\ Alerted
    /\ Cardinality(InWindow) = 10
    /\ Cardinality(NegativeInWindow) = 7
    /\ out.value.triggered /\ out.value.severity = "CRITICAL"

\* C8: with fewer than 7 rows in the log, or fewer than 7 of them in the
\* 14-day window, check_alert answers not triggered, LOW, whatever the
\* moods; an alert that is triggered has 7 rows or more in the window.
C8_InsufficientData ==
    Alerted =>
      /\ (Len(df) < 7 \/ Cardinality(InWindow) < 7)
           => (~out.value.triggered /\ out.value.severity = "LOW")
      /\ out.value.triggered => Cardinality(InWindow) >= 7

\* 7 rows, 6 of them in the window and all of those NEGATIVE
C8_Witness ==
    /\ Alerted
    /\ Len(df) = 7
    /\ Cardinality(InWindow) = 6
    /\ Cardinality(NegativeInWindow) = 6
    /\ ~out.value.triggered /\ out.value.severity = "LOW"

\* The last 7 rows of the log and the rows before them.
RecentRows == {i \in 1..Len(df) : i > Len(df) - 7}
PastRows == {i \in 1..Len(df) : i <= Len(df) - 7}
PositiveAmong(rows) == Cardinality({i \in rows : df[i].mood = "POSITIVE"})
StatsTaken == out.op = "get_mood_stats"

\* C9: for a log of 2 rows or more, the trend of get_mood_stats compares
\* the POSITIVE fraction of the last 7 rows with the POSITIVE fraction of
\* the rows before them (0 when there are none): Improving when greater,
\* Declining when smaller, Stable when equal; for a log of one row it is
\* "Not enough data".
C9_Trend ==
    (StatsTaken /\ Len(df) >= 1) =>
      LET r == PositiveAmong(RecentRows)
          nr == Cardinality(RecentRows)
          p == PositiveAmong(PastRows)
          np == Cardinality(PastRows)
          \* r / nr compared with p / np, or with 0
          recent == IF np = 0 THEN r ELSE r * np
          past == IF np = 0 THEN 0 ELSE p * nr
          trend == out.value.trend
      IN  IF Len(df) = 1 THEN trend = "Not enough data"
          ELSE /\ recent > past => trend = "Improving"
               /\ recent < past => trend = "Declining"
               /\ recent = past => trend = "Stable"

\* 10 rows: the first 3 NEGATIVE, 4 of the last 7 POSITIVE: Improving
C9_Witness ==
    /\ StatsTaken
    /\ Len(df) = 10
    /\ \A i \in PastRows : df[i].mood = "NEGATIVE"
    /\ PositiveAmong(RecentRows) = 4
    /\ out.value.trend = "Improving"

\* C10: get_mood_stats of the empty log has total_entries 0, the three
\* counts 0, a positive_percentage field equal to 0 and the trend "No data".
C10_EmptyStats ==
    (StatsTaken /\ Len(df) = 0) =>
      LET st == out.value
      IN  /\ st.total_entries = 0
          /\ st.positive_days = 0 /\ st.negative_days = 0 /\ st.neutral_days = 0
          /\ st.trend = "No data"
          /\ "positive_percentage" \in DOMAIN st
          /\ st.positive_percentage = 0


Reported == out.op = "export_report"

\* C11: export_report fails on no log, the empty one included, and its
\* recommendation follows the Stats of the log, first match: fewer than 7
\* entries, keep logging; positive_percentage >= 70, congratulation;
\* positive_percentage <= 30, professional help; else balanced.
C11_Recommendation ==
    Reported =>
      /\ "raised" \notin DOMAIN out.value
      /\ LET st == out.value.statistics
             rec == out.value.recommendation
         IN  /\ st.total_entries = Len(df)
             /\ IF Len(df) < 7 THEN rec = "keep logging"
                ELSE \* the percentage of the Stats is that of the log, to the
                     \* nearest tenth
                     /\ LET d == st.positive_percentage * Len(df)
                                   - 1000 * PositiveAmong(1..Len(df))
                        IN  2 * d <= Len(df) /\ -2 * d <= Len(df)
                     /\ st.positive_percentage >= 700 => rec = "great work"
                     /\ st.positive_percentage <= 300 => rec = "reach out to a professional"
                     /\ (st.positive_percentage > 300 /\ st.positive_percentage < 700)
                          => rec = "balanced"

\* 10 entries, 7 of them POSITIVE: 70 percent, the congratulation
C11_Witness ==
    /\ Reported
    /\ Len(df) = 10
    /\ PositiveAmong(1..Len(df)) = 7
    /\ out.value.recommendation = "great work"


\* A file that is there but cannot be parsed into the log: nothing in it,
\* a column missing, or a date cell that is no date.
HasDateColumn(f) == f.kind \in {"csv", "csv_nomood"}
Unparsable(f) ==
    \/ f.kind \in {"empty", "csv_nodate", "csv_nomood"}
    \/ HasDateColumn(f) /\ \E i \in 1..Len(f.rows) : f.rows[i].date[1] # "iso"
WellFormed(f) == f.kind = "csv" /\ ~Unparsable(f)

\* C12: once the engine is constructed: without a file the log is empty and
\* the construction has succeeded; with a file that cannot be parsed (a bad
\* date cell, a missing column) the construction has failed; with a
\* well-formed file the log holds the rows of the file, in order.
C12_LoadOutcomes ==
    engine # "none" =>
      /\ file.kind = "absent" => (engine = "ready" /\ df = <<>>)
      /\ Unparsable(file) => engine = "failed"
      /\ WellFormed(file) =>
           /\ engine = "ready"
           /\ Len(df) = Len(file.rows)
           /\ \A i \in 1..Len(df) :
                /\ df[i].date = file.rows[i].date[2]
                /\ df[i].mood = file.rows[i].mood
                /\ df[i].confidence = file.rows[i].confidence

=============================================================================
